---- MODULE Spec2Model ----
(***************************************************************************)
(* Model of the ensemble forecasting core of the Tai/Xiu predictor:        *)
(* src/server.js ("server" variant) and src/unnamed/part_000 ("part"       *)
(* variant).  Both files implement the same architecture with different    *)
(* constants; the variable `variant` selects whose constants apply.        *)
(*                                                                         *)
(* Conventions                                                             *)
(*  - JavaScript numbers are modelled as exact rationals [n, d] (reduced,  *)
(*    d > 0) or as integers in a stated unit; floating-point rounding is   *)
(*    not modelled.                                                        *)
(*  - JavaScript indices are 0-based; At(s, i) reads s[i] of the source.   *)
(*  - A call that raises is modelled by the outcome [kind |-> "throw"].    *)
(*  - Functions are modelled as their text reads.  extractFeaturesFor-     *)
(*    Ensemble returns an object literal whose shorthand properties        *)
(*    (f_freqT_5, f_avg5, f_run, ...) name variables that are declared     *)
(*    nowhere, so evaluating it raises ReferenceError in both files.       *)
(***************************************************************************)
EXTENDS Integers, Sequences, FiniteSets, TLC

VARIABLES
  variant,  \* "server" (src/server.js) or "part" (src/unnamed/part_000)
  meta,     \* LOGISTIC_ENSEMBLE, the module-level meta-learner singleton
  pc,       \* "idle", or "backtest" while overallBacktest's loop runs
  ret,      \* the last completed top-level call: its input and outcome
  bt        \* the frame of the running overallBacktest call

vars == <<variant, meta, pc, ret, bt>>

(***************************************************************************)
(* Bounds of the model.                                                    *)
(***************************************************************************)
MaxShort == 16     \* every history length 0..MaxShort is tried

(***************************************************************************)
(* Arithmetic helpers.                                                     *)
(***************************************************************************)
Min2(a, b) == IF a <= b THEN a ELSE b
Max2(a, b) == IF a >= b THEN a ELSE b
Abs(a) == IF a < 0 THEN -a ELSE a

RECURSIVE GCD(_, _)
GCD(a, b) == IF b = 0 THEN a ELSE GCD(b, a % b)

\* The rational n/d, reduced, with a positive denominator.
Rat(n, d) ==
  LET g == GCD(Abs(n), Abs(d))
      s == IF d < 0 THEN -1 ELSE 1
  IN  [n |-> s * (n \div g), d |-> s * (d \div g)]

\* a/b < c/d for a, c >= 0 and b, d > 0, by Euclid's algorithm (no products,
\* so that 32-bit integers cannot overflow).
RECURSIVE FracLess(_, _, _, _)
FracLess(a, b, c, d) ==
  LET q1 == a \div b
      q2 == c \div d
      r1 == a % b
      r2 == c % d
  IN  IF q1 # q2 THEN q1 < q2
      ELSE IF r2 = 0 THEN FALSE
      ELSE IF r1 = 0 THEN TRUE
      ELSE FracLess(d, r2, b, r1)

RatLess(x, y) == FracLess(x.n, x.d, y.n, y.d)
RatLeq(x, y) == ~RatLess(y, x)

\* Math.round(a / b) for a >= 0, b > 0: halves round up.
RoundDiv(a, b) == (2 * a + b) \div (2 * b)

At(s, i) == s[i + 1]
Slice0(s, k) == SubSeq(s, 1, k)                    \* s.slice(0, k)
LastN(s, k) == IF k <= 0 THEN <<>>
               ELSE IF Len(s) <= k THEN s
               ELSE SubSeq(s, Len(s) - k + 1, Len(s))

(***************************************************************************)
(* Data model: rounds and histories.                                       *)
(***************************************************************************)
Variants == {"server", "part"}
Outcomes == {"T", "X"}
Opp(o) == IF o = "T" THEN "X" ELSE "T"

RoundT == [ket_qua |-> "T", tong |-> 12]
RoundX == [ket_qua |-> "X", tong |-> 9]
Rounds == {RoundT, RoundX}

\* A history reference: null, or an array of rounds.
NullHist == [null |-> TRUE, rs |-> <<>>]
Hist(s) == [null |-> FALSE, rs |-> s]

Seeds == {<<RoundX, RoundT>>, <<RoundT, RoundT, RoundX>>}
Cycle(seed, len) == [i \in 1..len |-> seed[((i - 1) % Len(seed)) + 1]]

(***************************************************************************)
(* Program constants, per variant.                                         *)
(***************************************************************************)
\* Alteration of MinHist: no minimum, so that no history takes the fallback.
MinHistNone(v) == 0

\* ensemblePredict: "hist.length < 15" / "hist.length < 10".
MinHist(v) == IF v = "server" THEN 15 ELSE 10
\* Alteration of WarmMin: the warm-up is tried from 100 rounds on.
WarmMinLow(v) == 100

\* ensemblePredict: warm-up when "hist.length > 200" / "> 150".
WarmMin(v) == IF v = "server" THEN 200 ELSE 150
\* third argument of batchFitWalkForward: 100 / 80.
WarmOffset(v) == IF v = "server" THEN 100 ELSE 80
\* overallBacktest: short-circuit when "n <= 30" / "n <= 20".
MinSample(v) == IF v = "server" THEN 30 ELSE 20
\* default and handler lookbacks of overallBacktest.
DefaultLookback(v) == IF v = "server" THEN 300 ELSE 200
\* Alteration of MaxFrac: half of the bankroll.
MaxFracHalf(v) == Rat(1, 2)

\* kellyBetSize: Math.min(0.2, k) / Math.min(0.25, k).
MaxFrac(v) == IF v = "server" THEN Rat(1, 5) ELSE Rat(1, 4)

\* The voters of ensemblePredict, in the order of its votes array, with the
\* fixed weight of each in hundredths.
Voters(v) ==
  IF v = "server"
  THEN <<"r1", "r2", "r3", "r4", "r5", "r6", "r7", "r8", "r9", "r10", "r11",
         "logistic">>
  ELSE <<"r1", "r2", "r3", "r4", "r5", "r6", "r7", "logistic">>

VoteWeights(v) ==
  IF v = "server"
  THEN <<15, 12, 15, 12, 8, 8, 8, 15, 10, 10, 10, 35>>
  ELSE <<20, 15, 20, 15, 10, 10, 10, 40>>

\* conf = Math.min(0.99, 0.7 + (rawConf - 0.5) * A + agree * B), in units
\* of 1/200: base 140, A = 160 / 150, B = 40 / 30.
BlendRaw(v) == IF v = "server" THEN 160 ELSE 150
BlendAgree(v) == IF v = "server" THEN 40 ELSE 30

(***************************************************************************)
(* OnlineLogisticEnsemble.  The weights are real numbers updated by        *)
(* stochastic gradient steps; the model keeps what the claims read: the    *)
(* _warmed flag, the number of update() calls applied, the highest         *)
(* (0-based) index of a round whose outcome has been used as a label, and  *)
(* (a history variable) whether batchFitWalkForward has ever been entered. *)
(* server.js elides the class methods ("... same methods"); they are taken *)
(* from part_000.                                                          *)
(***************************************************************************)
NewMeta == [warmed |-> FALSE, updates |-> 0, maxLabel |-> -1, attempted |-> FALSE]

Throw(e) == [kind |-> "throw", err |-> e]

\* Alteration of extractFeaturesForEnsemble: the feature vector is returned, as
\* it would be were the shorthand properties declared.
extractFeaturesDeclared(v, rs) == [kind |-> "ok"]

\* extractFeaturesForEnsemble(hist): the returned object literal reads the
\* undeclared variables f_freqT_5, f_freqT_10, ..., so the call raises.
extractFeaturesForEnsemble(v, rs) == Throw("ReferenceError")

\* batchFitWalkForward(history, featureFn, warm) on meta-learner m.
\* Returns the meta-learner afterwards and whether the call raised.
batchFitWalkForward(v, rs, m) ==
  LET N == Len(rs)
      warm == WarmOffset(v)
      steps == {i \in warm..(N - 2) :
                  extractFeaturesForEnsemble(v, Slice0(rs, i + 1)).kind = "ok"}
      failing == (warm..(N - 2)) \ steps
      stop == IF failing = {} THEN N - 1
              ELSE CHOOSE i \in failing : \A j \in failing : i <= j
      applied == stop - warm
  IN  IF N < warm + 10
      THEN [threw |-> FALSE, meta |-> [m EXCEPT !.attempted = TRUE]]
      ELSE [threw |-> failing # {},
            meta |-> [warmed |-> IF failing = {} THEN TRUE ELSE m.warmed,
                      updates |-> m.updates + applied,
                      maxLabel |-> IF applied > 0
                                   THEN Max2(m.maxLabel, stop)
                                   ELSE m.maxLabel,
                      attempted |-> TRUE]]

(***************************************************************************)
(* The voting block of ensemblePredict.  A vote is                         *)
(* [p, c, nan, why]: the predicted symbol, the voter's confidence in       *)
(* hundredths (nan when it is NaN) and its rationale lines.                *)
(***************************************************************************)
Line(src, k) == [src |-> src, k |-> k]

\* "(r.conf || 0.6)" in server.js guards the sub-predictors, not the
\* logistic vote; part_000 multiplies r.conf as it is.
VoteConf(v, votes, i) ==
  IF v = "server" /\ i < Len(votes) /\ (votes[i].nan \/ votes[i].c = 0)
  THEN 60
  ELSE votes[i].c

VoteMass(v, votes, i) == VoteConf(v, votes, i) * VoteWeights(v)[i]

RECURSIVE SumMass(_, _, _, _)
SumMass(v, votes, sym, i) ==
  IF i = 0 THEN 0
  ELSE SumMass(v, votes, sym, i - 1)
       + (IF votes[i].p = sym THEN VoteMass(v, votes, i) ELSE 0)

\* Alteration of AgreeingWhy: the lines of every voter, agreeing or not.
RECURSIVE EveryWhy(_, _, _)
EveryWhy(votes, pred, i) ==
  IF i = 0 THEN <<>> ELSE EveryWhy(votes, pred, i - 1) \o votes[i].why

RECURSIVE AgreeingWhy(_, _, _)
AgreeingWhy(votes, pred, i) ==
  IF i = 0 THEN <<>>
  ELSE AgreeingWhy(votes, pred, i - 1)
       \o (IF votes[i].p = pred THEN votes[i].why ELSE <<>>)

\* Alteration of VotePick: a tie goes to X ("scoreT > scoreX").
VotePickStrict(scoreT, scoreX) == IF scoreT > scoreX THEN "T" ELSE "X"

VotePick(scoreT, scoreX) == IF scoreT >= scoreX THEN "T" ELSE "X"

\* Alteration of ConfClamp: no Math.min(0.99, ...).
ConfUnclamped(c) == c

ConfClamp(c) == IF RatLess(Rat(99, 100), c) THEN Rat(99, 100) ELSE c

EnsembleVote(v, votes) ==
  LET n == Len(votes)
      scoreT == SumMass(v, votes, "T", n)
      scoreX == SumMass(v, votes, "X", n)
      pred == VotePick(scoreT, scoreX)
      M == Max2(scoreT, scoreX)
      S == scoreT + scoreX
      a == Cardinality({i \in 1..n : votes[i].p = pred})
      raw == IF S = 0 THEN Rat(0, 1) ELSE Rat(M, S)     \* "/ (scoreT + scoreX || 1)"
      conf == Rat(280 * raw.d * n + (2 * raw.n - raw.d) * BlendRaw(v) * n
                    + 2 * a * BlendAgree(v) * raw.d,
                  400 * raw.d * n)
  IN  [kind |-> "ok", path |-> "vote", pred |-> pred,
       conf |-> ConfClamp(conf),
       why |-> AgreeingWhy(votes, pred, n)
               \o <<Line("summary", RoundDiv(100 * a, n))>>,
       scoreT |-> scoreT, scoreX |-> scoreX]

(***************************************************************************)
(* ensemblePredict(hist) on meta-learner m.  votes are the outputs of the  *)
(* sub-predictors and of predictProb on this history.                      *)
(***************************************************************************)
\* LOGISTIC_ENSEMBLE.predictProb(features): the last vote is the one the
\* meta-learner's weights give.  votes carries the vote of the initial
\* weights; every update moves the weights, and the vote of a trained
\* learner is taken to be the opposite symbol.
predictProb(m, votes) ==
  IF m.updates = 0 THEN votes
  ELSE [votes EXCEPT ![Len(votes)].p = Opp(@)]

\* "if (hist.length > 200 && !LOGISTIC_ENSEMBLE._warmed)" (150 in part_000).
NeedWarm(v, rs, m) == Len(rs) > WarmMin(v) /\ ~m.warmed

\* Alteration of Fallback: the fallback reports confidence 0.7.
FallbackConfident(pred) ==
  [kind |-> "ok", path |-> "fallback", pred |-> pred, conf |-> Rat(7, 10),
   why |-> <<Line("fallback", 0)>>, scoreT |-> 0, scoreX |-> 0]

Fallback(pred) ==
  [kind |-> "ok", path |-> "fallback", pred |-> pred, conf |-> Rat(6, 10),
   why |-> <<Line("fallback", 0)>>, scoreT |-> 0, scoreX |-> 0]

\* Alteration of FallbackPred: the first round's outcome instead of the last.
FallbackPredFirst(rs) == IF Len(rs) > 0 THEN rs[1].ket_qua ELSE "T"

FallbackPred(rs) == IF Len(rs) > 0 THEN rs[Len(rs)].ket_qua ELSE "T"

ensemblePredict(v, h, m, votes) ==
  IF h.null
  THEN \* "!hist" holds; part_000 then evaluates hist.at(-1) on null.
       [out |-> IF v = "server" THEN Fallback("T") ELSE Throw("TypeError"),
        meta |-> m]
  ELSE IF Len(h.rs) < MinHist(v)
  THEN [out |-> Fallback(FallbackPred(h.rs)), meta |-> m]
  ELSE
    LET needWarm == NeedWarm(v, h.rs, m)
        fit == IF needWarm THEN batchFitWalkForward(v, h.rs, m)
               ELSE [threw |-> FALSE, meta |-> m]
        \* server.js wraps the warm-up in try/catch; part_000 does not.
        escaped == fit.threw /\ v = "part"
        feats == extractFeaturesForEnsemble(v, h.rs)
    IN  IF escaped THEN [out |-> Throw("ReferenceError"), meta |-> fit.meta]
        ELSE IF feats.kind = "throw" THEN [out |-> feats, meta |-> fit.meta]
        ELSE [out |-> EnsembleVote(v, predictProb(fit.meta, votes)),
              meta |-> fit.meta]

(***************************************************************************)
(* kellyBetSize(confidence, payout, bankroll, baseUnit).  The bankroll is  *)
(* held in twentieths of a unit (every update adds bet * 0.95 or subtracts *)
(* bet, so it stays a multiple of 0.05); the bet is in whole units.        *)
(***************************************************************************)
ClampP(c) ==
  IF RatLess(c, Rat(1, 100)) THEN Rat(1, 100)
  ELSE IF RatLess(Rat(99, 100), c) THEN Rat(99, 100)
  ELSE c

\* Alteration of KellyK: even odds assumed, k = p - q.
KellyKEven(p, b) == Rat(2 * p.n - p.d, p.d)

\* k = (b * p - q) / b with q = 1 - p.
KellyK(p, b) == Rat(b.n * p.n - b.d * (p.d - p.n), b.n * p.d)

kellyBetSize(v, confidence, payout, bankroll20, baseUnit) ==
  LET p == ClampP(confidence)
      k == KellyK(p, payout)
      frac == IF RatLess(MaxFrac(v), k) THEN MaxFrac(v) ELSE k
  IN  IF k.n <= 0 THEN baseUnit
      ELSE Max2(1, RoundDiv(bankroll20 * frac.n, 20 * frac.d))

(***************************************************************************)
(* overallBacktest(hist, lookback, betUnit = 1).                           *)
(***************************************************************************)
Payout == Rat(19, 20)                 \* 0.95, as every caller passes it
StartBankroll20 == 1000 * 20          \* "let bankroll = 1000"

NoBankroll == [null |-> TRUE, v20 |-> 0]
Bankroll(b) == [null |-> FALSE, v20 |-> b]

EvalSteps(h, lookback) == Min2(lookback, Len(h.rs) - 1)

\* Alteration of ShortCircuit: "n < 30" / "n < 20".
ShortCircuitStrict(v, n) == n < MinSample(v)

\* "if (n <= 30)" / "if (n <= 20)"
ShortCircuit(v, n) == n <= MinSample(v)

\* "if (n <= 30) return { acc: 0, sample: n, bankroll: null, roi: 0, ... }"
ShortReport(n) ==
  [kind |-> "report", short |-> TRUE, acc |-> Rat(0, 1), sample |-> n,
   bankroll |-> NoBankroll, roi |-> Rat(0, 1), maxDrawdown |-> Rat(0, 1),
   sharpeZero |-> TRUE, details |-> <<>>]

\* sharpe = sdRet > 0 ? meanRet / sdRet : 0.  The model keeps whether the
\* standard deviation of the step returns is 0 (all returns equal).
SharpeZero(returns) == \A i, j \in 1..Len(returns) : returns[i] = returns[j]

FullReport(f) ==
  [kind |-> "report", short |-> FALSE, acc |-> Rat(f.correct, f.n),
   sample |-> f.n, bankroll |-> Bankroll(f.bankroll),
   roi |-> Rat(f.bankroll - StartBankroll20, StartBankroll20),
   maxDrawdown |-> f.maxDrawdown, sharpeZero |-> SharpeZero(f.returns),
   details |-> LastN(f.details, 200)]

\* The locals of a running overallBacktest call.  calls counts the calls of
\* ensemblePredict, steps the completed iterations; visible, path and
\* metaSeen record, for the last completed iteration, how many rounds the
\* forecast was given, which path produced it and the highest label index
\* the meta-learner had been trained on when it was read.
NewFrame(h, lookback, n) ==
  [active |-> TRUE, hist |-> h, lookback |-> lookback, n |-> n,
   i |-> Len(h.rs) - 1 - n, correct |-> 0, bankroll |-> StartBankroll20,
   peak |-> StartBankroll20, maxDrawdown |-> Rat(0, 1), returns |-> <<>>,
   details |-> <<>>, calls |-> 0, steps |-> 0,
   visible |-> 0, path |-> "none", metaSeen |-> -1]

NoFrame == [NewFrame(Hist(<<>>), 0, 0) EXCEPT !.active = FALSE]

\* "const past = hist.slice(0, i + 1)"
Past(h, i) == Slice0(h.rs, i + 1)

\* Alteration of Settle: a win pays the whole bet.
SettleEvenMoney(bankroll20, betSize, hit) ==
  IF hit THEN bankroll20 + 20 * betSize ELSE bankroll20 - 20 * betSize

\* "bankroll += betSize * 0.95" / "bankroll -= betSize", in twentieths.
Settle(bankroll20, betSize, hit) ==
  IF hit THEN bankroll20 + 19 * betSize ELSE bankroll20 - 20 * betSize

\* "if (bankroll > peak) peak = bankroll"
NextPeak(peak, bankroll20) == Max2(peak, bankroll20)

\* One iteration of the loop body on frame f, given the forecast res of
\* ensemblePredict(hist.slice(0, i + 1)).
LoopBody(v, f, past, res, seen) ==
  LET actualNext == At(f.hist.rs, f.i + 1).ket_qua
      betSize == kellyBetSize(v, res.conf, Payout, f.bankroll, 1)
      hit == res.pred = actualNext
      bankroll == Settle(f.bankroll, betSize, hit)
      retv == IF hit THEN Rat(19 * betSize, bankroll)
              ELSE Rat(-20 * betSize, bankroll)
      peak == NextPeak(f.peak, bankroll)
      dd == Rat(peak - bankroll, peak)
  IN  [f EXCEPT
        !.correct = IF hit THEN @ + 1 ELSE @,
        !.bankroll = bankroll,
        !.peak = peak,
        !.maxDrawdown = IF RatLess(@, dd) THEN dd ELSE @,
        !.returns = Append(@, retv),
        !.details = Append(@, [idx |-> f.i + 1, pred |-> res.pred,
                               actual |-> actualNext, conf |-> res.conf,
                               bet |-> betSize, bankroll |-> bankroll,
                               ret |-> retv]),
        !.steps = @ + 1,
        !.visible = Len(past),
        !.path = res.path,
        !.metaSeen = seen,
        !.i = @ + 1]

(***************************************************************************)
(* Sequence statistics used by riskLevel and the bridge detector.          *)
(***************************************************************************)
Results(rs) == [i \in 1..Len(rs) |-> rs[i].ket_qua]     \* hist.map(h => h.ket_qua)
Totals(rs) == [i \in 1..Len(rs) |-> rs[i].tong]         \* hist.map(h => h.tong)

RECURSIVE SumUpTo(_, _)
SumUpTo(s, k) == IF k = 0 THEN 0 ELSE s[k] + SumUpTo(s, k - 1)

SumSeq(s) == SumUpTo(s, Len(s))

streakOfEnd(arr) ==
  IF Len(arr) = 0 THEN 0
  ELSE LET L == Len(arr)
           same == {k \in 1..L : \A j \in (L - k + 1)..L : arr[j] = arr[L]}
       IN  CHOOSE k \in same : \A m \in same : m <= k

Switches(arr) == Cardinality({i \in 2..Len(arr) : arr[i] # arr[i - 1]})

CountT(arr) == Cardinality({i \in 1..Len(arr) : arr[i] = "T"})

\* entropy(arr) > 0.95.  The binary entropy of c/n exceeds 0.95 exactly when
\* 0.36913 < c/n < 0.63087 (no fraction with n <= 50 lies closer to the
\* threshold than that).
EntropyAbove95(arr) ==
  /\ Len(arr) > 0
  /\ 36913 * Len(arr) < 100000 * CountT(arr)
  /\ 100000 * CountT(arr) < 63087 * Len(arr)

\* variance(arr) > c, with the sample variance (denominator n - 1).
SumSquares(arr, total) ==
  Len(arr) * SumSeq([i \in 1..Len(arr) |-> arr[i] * arr[i]]) - total * total

VarianceAbove(arr, c) ==
  /\ Len(arr) >= 2
  /\ SumSquares(arr, SumSeq(arr)) > c * Len(arr) * (Len(arr) - 1)

RECURSIVE GCDUpTo(_, _)
GCDUpTo(s, k) == IF k = 0 THEN 0 ELSE GCD(Abs(s[k]), GCDUpTo(s, k - 1))

\* The deviations n * (v - mean), and the moments of the deviations d.
Deviations(arr, total) == [i \in 1..Len(arr) |-> Len(arr) * arr[i] - total]
Scaled(dev, g) == [i \in 1..Len(dev) |-> dev[i] \div g]
Moment2(d) == SumSeq([i \in 1..Len(d) |-> d[i] * d[i]])
Moment4(d) == SumSeq([i \in 1..Len(d) |-> d[i] * d[i] * d[i] * d[i]])
FourthAbove(d, m2, c) == Len(d) * Moment4(d) > (c + 3) * m2 * m2
ScaledKurtosisAbove(dev, g, c) ==
  g # 0 /\ FourthAbove(Scaled(dev, g), Moment2(Scaled(dev, g)), c)
DevKurtosisAbove(dev, c) == ScaledKurtosisAbove(dev, GCDUpTo(dev, Len(dev)), c)

\* kurtosis(arr) > c, where kurtosis = m4 / m2^2 - 3 (NaN, so never above,
\* when all values are equal; 0 for fewer than 4 values).  The deviations
\* are scaled by their common divisor, which kurtosis does not depend on.
KurtosisAbove(arr, c) ==
  /\ Len(arr) >= 4
  /\ DevKurtosisAbove(Deviations(arr, SumSeq(arr)), c)

(***************************************************************************)
(* riskLevel(conf, hist).  The risk score is kept in units of              *)
(* 1 / (400 * conf.d * (len - 1)), exact for every term of the sum.        *)
(***************************************************************************)
RiskWindow(v) == IF v = "server" THEN 30 ELSE 20

RiskLabels(v) ==
  IF v = "server"
  THEN <<"Rat Thap", "Thap", "Trung binh", "Cao", "Rat Cao">>
  ELSE <<"Thap", "Trung binh", "Cao">>

\* The cut points of the label scale, in hundredths.
RiskCuts(v) == IF v = "server" THEN <<25, 35, 50, 65>> ELSE <<25, 40>>

\* The penalties added to 1 - conf, in hundredths (the switch-rate term
\* apart): streak, entropy, variance, kurtosis.
RiskPenalty(v, rs) ==
  LET w == LastN(Results(rs), RiskWindow(v))
      t == LastN(Totals(rs), RiskWindow(v))
      s == streakOfEnd(Results(rs))
  IN  IF v = "server"
      THEN (IF s >= 8 THEN 15 ELSE 0)
           + (IF EntropyAbove95(w) THEN 20 ELSE 0)
           + (IF VarianceAbove(t, 12) THEN 15 ELSE 0)
           + (IF KurtosisAbove(t, 4) THEN 10 ELSE 0)
      ELSE (IF s >= 7 THEN 10 ELSE 0)
           + (IF EntropyAbove95(w) THEN 15 ELSE 0)
           + (IF VarianceAbove(t, 10) THEN 10 ELSE 0)

\* switchRate_ * 0.25 (server) or * 0.2 (part), as a rational.
RiskSwitch(v, rs) ==
  LET w == LastN(Results(rs), RiskWindow(v))
      den == IF Len(w) > 1 THEN Len(w) - 1 ELSE 1
  IN  IF v = "server" THEN Rat(Switches(w), 4 * den)
      ELSE Rat(Switches(w), 5 * den)

\* Alteration of RiskScore: the score starts from conf instead of 1 - conf.
RiskScoreRising(v, conf, rs) ==
  LET sw == RiskSwitch(v, rs)
      pen == RiskPenalty(v, rs)
  IN  Rat(conf.n * sw.d * 100 + sw.n * conf.d * 100 + pen * conf.d * sw.d,
          conf.d * sw.d * 100)

\* risk = (1 - conf) + switch term + penalties.
RiskScore(v, conf, rs) ==
  LET sw == RiskSwitch(v, rs)
      pen == RiskPenalty(v, rs)
  IN  Rat((conf.d - conf.n) * sw.d * 100 + sw.n * conf.d * 100
            + pen * conf.d * sw.d,
          conf.d * sw.d * 100)

\* risk <= cut / 100, for a risk that may be negative.
RiskAtMost(risk, cut) == risk.n * 100 <= cut * risk.d

\* The first label whose cut point the risk does not exceed.
RiskLabel(v, risk) ==
  LET cuts == RiskCuts(v)
      below == {k \in 1..Len(cuts) : RiskAtMost(risk, cuts[k])}
      idx == IF below = {} THEN Len(cuts) + 1
             ELSE CHOOSE k \in below : \A m \in below : k <= m
  IN  [kind |-> "label", label |-> RiskLabels(v)[idx], level |-> idx]

riskLevel(v, conf, h) ==
  IF h.null THEN Throw("TypeError")           \* hist.map on null
  ELSE RiskLabel(v, RiskScore(v, conf, h.rs))

(***************************************************************************)
(* Bridge motifs (server.js only).                                         *)
(***************************************************************************)
\* A pattern argument of countPattern: a string, or the array of characters
\* that pattern.split('') yields.
StrPattern(chars) == [str |-> TRUE, chars |-> chars]
ArrPattern(chars) == [str |-> FALSE, chars |-> chars]

\* "seq.slice(i, i + pattern.length).join('') === pattern": a string is
\* never strictly equal to an array.
JoinEquals(slice, pattern) == pattern.str /\ slice = pattern.chars

countPattern(seq, pattern) ==
  LET L == Len(pattern.chars)
  IN  Cardinality({i \in 0..(Len(seq) - L) :
                     JoinEquals(SubSeq(seq, i + 1, i + L), pattern)})

BRIDGE_TYPES ==
  <<[key |-> "bet_t", pattern |-> <<"T", "T", "T", "T", "T">>, follow |-> "constT"],
     [key |-> "bet_x", pattern |-> <<"X", "X", "X", "X", "X">>, follow |-> "constX"],
     [key |-> "1-1", pattern |-> <<"T", "X", "T", "X", "T">>, follow |-> "altern"],
     [key |-> "1-2_txx", pattern |-> <<"T", "X", "X", "T", "X", "X">>, follow |-> "oneTwo"],
     [key |-> "1-2_xtt", pattern |-> <<"X", "T", "T", "X", "T", "T">>, follow |-> "oneTwo"],
     [key |-> "2-1_tt x", pattern |-> <<"T", "T", "X", "T", "T", "X">>, follow |-> "twoOne"],
     [key |-> "2-1_xx t", pattern |-> <<"X", "X", "T", "X", "X", "T">>, follow |-> "twoOne"],
     [key |-> "2-2", pattern |-> <<"T", "T", "X", "X", "T", "T", "X", "X">>, follow |-> "twoTwo"],
     [key |-> "3-1_ttt x", pattern |-> <<"T", "T", "T", "X", "T", "T", "T", "X">>, follow |-> "threeOne"],
     [key |-> "3-1_xxx t", pattern |-> <<"X", "X", "X", "T", "X", "X", "X", "T">>, follow |-> "threeOne"],
     [key |-> "3-2_ttt xx", pattern |-> <<"T", "T", "T", "X", "X", "T", "T", "T", "X", "X">>, follow |-> "threeTwo"],
     [key |-> "3-2_xxx tt", pattern |-> <<"X", "X", "X", "T", "T", "X", "X", "X", "T", "T">>, follow |-> "threeTwo"],
     [key |-> "4-1", pattern |-> <<"T", "T", "T", "T", "X", "T", "T", "T", "T", "X">>, follow |-> "fourOne"],
     [key |-> "4-2", pattern |-> <<"T", "T", "T", "T", "X", "X", "T", "T", "T", "T", "X", "X">>, follow |-> "fourTwo"],
     [key |-> "1-3", pattern |-> <<"T", "X", "X", "X", "T", "X", "X", "X">>, follow |-> "oneThree"],
     [key |-> "2-3", pattern |-> <<"T", "T", "X", "X", "X", "T", "T", "X", "X", "X">>, follow |-> "twoThree"],
     [key |-> "3-3", pattern |-> <<"T", "T", "T", "X", "X", "X", "T", "T", "T", "X", "X", "X">>, follow |-> "threeThree"],
     [key |-> "fib_1-1-2", pattern |-> <<"T", "X", "T", "T", "X", "T", "T", "X", "T">>, follow |-> "fib"],
     [key |-> "fib_1-2-3", pattern |-> <<"T", "X", "X", "T", "T", "T", "X", "X", "T", "T", "T">>, follow |-> "fib"]>>

EndsWith(s, suf) == Len(s) >= Len(suf) /\ LastN(s, Len(suf)) = suf

LastOf(s) == IF Len(s) = 0 THEN "undefined" ELSE s[Len(s)]

alternFollow(s) == IF LastOf(s) = "T" THEN "X" ELSE "T"

oneTwoFollow(s) ==
  IF EndsWith(LastN(s, 3), <<"T", "X">>) \/ EndsWith(LastN(s, 3), <<"X", "T">>)
  THEN "X" ELSE "T"

twoOneFollow(s) ==
  IF LastN(s, 3) = <<"T", "T", "X">> THEN "T"
  ELSE IF LastN(s, 3) = <<"X", "X", "T">> THEN "X"
  ELSE LastOf(s)

twoTwoFollow(s) ==
  IF EndsWith(LastN(s, 4), <<"T", "T", "X", "X">>) THEN "T"
  ELSE IF EndsWith(LastN(s, 4), <<"X", "X", "T", "T">>) THEN "X"
  ELSE alternFollow(s)

threeOneFollow(s) ==
  IF LastN(s, 4) = <<"T", "T", "T", "X">> THEN "T"
  ELSE IF LastN(s, 4) = <<"X", "X", "X", "T">> THEN "X"
  ELSE LastOf(s)

threeTwoFollow(s) ==
  IF EndsWith(LastN(s, 5), <<"T", "T", "T", "X", "X">>) THEN "T"
  ELSE IF EndsWith(LastN(s, 5), <<"X", "X", "X", "T", "T">>) THEN "X"
  ELSE twoTwoFollow(s)

fourOneFollow(s) ==
  IF LastN(s, 5) = <<"T", "T", "T", "T", "X">> THEN "T"
  ELSE IF LastN(s, 5) = <<"X", "X", "X", "X", "T">> THEN "X"
  ELSE threeOneFollow(s)

fourTwoFollow(s) ==
  IF EndsWith(LastN(s, 6), <<"T", "T", "T", "T", "X", "X">>) THEN "T"
  ELSE IF EndsWith(LastN(s, 6), <<"X", "X", "X", "X", "T", "T">>) THEN "X"
  ELSE threeTwoFollow(s)

oneThreeFollow(s) ==
  IF EndsWith(LastN(s, 4), <<"T", "X", "X", "X">>) THEN "T"
  ELSE IF EndsWith(LastN(s, 4), <<"X", "T", "T", "T">>) THEN "X"
  ELSE oneTwoFollow(s)

twoThreeFollow(s) ==
  IF EndsWith(LastN(s, 5), <<"T", "T", "X", "X", "X">>) THEN "T"
  ELSE IF EndsWith(LastN(s, 5), <<"X", "X", "T", "T", "T">>) THEN "X"
  ELSE twoTwoFollow(s)

threeThreeFollow(s) ==
  IF EndsWith(LastN(s, 6), <<"T", "T", "T", "X", "X", "X">>) THEN "T"
  ELSE IF EndsWith(LastN(s, 6), <<"X", "X", "X", "T", "T", "T">>) THEN "X"
  ELSE threeTwoFollow(s)

fibFollow(s) == IF LastOf(s) = "T" THEN "X" ELSE "T"

\* "typeof info.follow === 'function' ? info.follow(rs) : info.follow"
BridgeFollow(f, s) ==
  CASE f = "constT" -> "T"
    [] f = "constX" -> "X"
    [] f = "altern" -> alternFollow(s)
    [] f = "oneTwo" -> oneTwoFollow(s)
    [] f = "twoOne" -> twoOneFollow(s)
    [] f = "twoTwo" -> twoTwoFollow(s)
    [] f = "threeOne" -> threeOneFollow(s)
    [] f = "threeTwo" -> threeTwoFollow(s)
    [] f = "fourOne" -> fourOneFollow(s)
    [] f = "fourTwo" -> fourTwoFollow(s)
    [] f = "oneThree" -> oneThreeFollow(s)
    [] f = "twoThree" -> twoThreeFollow(s)
    [] f = "threeThree" -> threeThreeFollow(s)
    [] OTHER -> fibFollow(s)

\* The count of every catalogue entry: "countPattern(rs, pat.split(''))".
BridgeCounts(rs) ==
  [k \in 1..Len(BRIDGE_TYPES) |->
     countPattern(rs, ArrPattern(BRIDGE_TYPES[k].pattern))]

\* The loop over the catalogue: the first entry with the highest count wins
\* ("if (count > maxCount)").
DominantBridge(rs, counts) ==
  LET K == 1..Len(BRIDGE_TYPES)
      maxCount == CHOOSE c \in {counts[k] : k \in K} :
                    \A k \in K : counts[k] <= c
      dominant == CHOOSE k \in K :
                    /\ counts[k] = maxCount
                    /\ \A j \in K : counts[j] = maxCount => k <= j
  IN  IF maxCount < 1
      THEN [kind |-> "bridge", type |-> "null", pred |-> "undefined",
            conf |-> Rat(1, 2), why |-> <<Line("bridge", 0)>>]
      ELSE [kind |-> "bridge", type |-> BRIDGE_TYPES[dominant].key,
            pred |-> BridgeFollow(BRIDGE_TYPES[dominant].follow, rs),
            conf |-> Rat(60 + Min2(30, maxCount * 5), 100),
            why |-> <<Line("bridge", maxCount)>>]

detectDominantBridge(h, window) ==
  IF h.null THEN Throw("TypeError")           \* hist.map on null
  ELSE DominantBridge(LastN(Results(h.rs), window),
                      BridgeCounts(LastN(Results(h.rs), window)))

(***************************************************************************)
(* Inputs.                                                                 *)
(***************************************************************************)
\* Histories: null; every cycle of a seed of 0..MaxShort rounds (around the
\* ensemble minimum of either variant) and of the lengths around the
\* backtest's sample floor; and the alternating histories long enough for
\* the warm-up thresholds (> 150 and > 200 rounds) and for the 120-round
\* scenario.
FloorLens == {MinSample(v) + k : v \in Variants, k \in 1..3}
LongLens == {120, 151, 201}

Alternating(len) == Cycle(<<RoundX, RoundT>>, len)   \* ends in T for even len

HistInputs ==
  {NullHist}
    \cup {Hist(Cycle(seed, len)) :
            seed \in Seeds, len \in (0..MaxShort) \cup FloorLens}
    \cup {Hist(Alternating(len)) : len \in LongLens}

\* Lookbacks a caller passes: at and around the floors, the default, and a
\* negative one ("?lookback=-5" reaches overallBacktest unchanged).
Lookbacks == {-5, 20, 30, 300}

RiskConfs == {Rat(6, 10), Rat(99, 100)}

\* The rationale lines of voter i: the sub-predictors return zero, one or
\* two lines, the logistic vote exactly one.
VoterWhy(v, i) ==
  IF i = Len(Voters(v)) THEN <<Line("logistic", 0)>>
  ELSE [k \in 1..(i % 3) |-> Line(Voters(v)[i], k)]

Conf(c) == [c |-> c, nan |-> FALSE]
NaNConf == [c |-> 0, nan |-> TRUE]

\* Confidence profiles, in hundredths, one entry per voter.  Sub-predictor
\* confidences lie in (0, 1.3]; the logistic confidence Math.max(pT, pX)
\* lies in [0.5, 1].  In server.js bollingerPrediction yields NaN when the
\* totals have no spread, and "(r.conf || 0.6)" replaces it; part_000 has
\* no voter that yields NaN or 0 on well-formed rounds.
ConfProfiles(v) ==
  LET n == Len(Voters(v))
      uniform == [i \in 1..n |-> Conf(70)]
      low == [i \in 1..n |-> Conf(50)]
      high == [i \in 1..n |-> IF i = n THEN Conf(100) ELSE Conf(115)]
      mixed == [i \in 1..n |->
                  IF i = n THEN Conf(55) ELSE Conf(60 + 7 * (i % 5))]
      guarded == [i \in 1..n |->
                    IF i = n THEN Conf(50)
                    ELSE IF i = 10 THEN NaNConf
                    ELSE Conf(60 + 5 * (i % 4))]
  IN  {uniform, low, high, mixed}
        \cup (IF v = "server" THEN {guarded} ELSE {})

MkVotes(v, preds, profile) ==
  [i \in 1..Len(Voters(v)) |->
     [p |-> preds[i], c |-> profile[i].c, nan |-> profile[i].nan,
      why |-> VoterWhy(v, i)]]

\* Every combination of votes over the confidence profiles.
VoteInputs(v) ==
  {MkVotes(v, preds, profile) :
     preds \in [1..Len(Voters(v)) -> Outcomes], profile \in ConfProfiles(v)}

\* The vote vectors tried by the request-level specification.
VoteSamples(v) ==
  LET n == Len(Voters(v))
      allT == [i \in 1..n |-> "T"]
      split == [i \in 1..n |-> IF i % 2 = 0 THEN "T" ELSE "X"]
      uniform == [i \in 1..n |-> Conf(70)]
      spread == [i \in 1..n |-> Conf(50 + 5 * (i % 7))]
  IN  {MkVotes(v, allT, uniform), MkVotes(v, split, spread)}

NoVotes == <<>>

\* The votes exist only once the features have been extracted.
VotesFor(v, rs) ==
  IF Len(rs) >= MinHist(v) /\ extractFeaturesForEnsemble(v, rs).kind = "ok"
  THEN VoteSamples(v)
  ELSE {NoVotes}

(***************************************************************************)
(* The process: one Node.js event loop serving calls one at a time on the  *)
(* shared meta-learner.                                                    *)
(***************************************************************************)
Init ==
  /\ variant \in Variants
  /\ meta = NewMeta
  /\ pc = "idle"
  /\ ret = [op |-> "none"]
  /\ bt = NoFrame

\* A call of ensemblePredict(hist) from a request handler.
CallEnsemblePredict ==
  /\ pc = "idle"
  /\ \E h \in HistInputs :
       \E votes \in VotesFor(variant, h.rs) :
         LET r == ensemblePredict(variant, h, meta, votes)
         IN  /\ meta' = r.meta
             /\ ret' = [op |-> "ensemblePredict", hist |-> h, votes |-> votes,
                        out |-> r.out, before |-> meta]
  /\ bt' = NoFrame
  /\ UNCHANGED <<variant, pc>>

\* overallBacktest(hist, lookback) up to the loop: the short-circuit return,
\* or the initialisation of the locals.
BacktestBegin ==
  /\ pc = "idle"
  /\ \E h \in HistInputs, lookback \in Lookbacks :
       IF h.null
       THEN /\ ret' = [op |-> "overallBacktest", hist |-> h,
                       lookback |-> lookback,
                       out |-> Throw("TypeError")]     \* hist.length on null
            /\ bt' = NoFrame
            /\ pc' = "idle"
       ELSE LET n == EvalSteps(h, lookback)
            IN  IF ShortCircuit(variant, n)
                THEN /\ ret' = [op |-> "overallBacktest", hist |-> h,
                                lookback |-> lookback, out |-> ShortReport(n)]
                     /\ bt' = NoFrame
                     /\ pc' = "idle"
                ELSE /\ ret' = [op |-> "overallBacktest", hist |-> h,
                                lookback |-> lookback,
                                out |-> [kind |-> "running"]]
                     /\ bt' = NewFrame(h, lookback, n)
                     /\ pc' = "backtest"
  /\ UNCHANGED <<variant, meta>>

\* One iteration of overallBacktest's loop; after the last one, the report.
\* An exception of ensemblePredict ends the call.
BacktestStep ==
  /\ pc = "backtest"
  /\ LET past == Past(bt.hist, bt.i)
     IN  \E votes \in VotesFor(variant, past) :
           LET r == ensemblePredict(variant, Hist(past), meta, votes)
               called == [bt EXCEPT !.calls = @ + 1]
               f == LoopBody(variant, called, past, r.out, r.meta.maxLabel)
           IN  /\ meta' = r.meta
               /\ IF r.out.kind = "throw"
                  THEN /\ bt' = [called EXCEPT !.active = FALSE]
                       /\ ret' = [ret EXCEPT !.out = r.out]
                       /\ pc' = "idle"
                  ELSE IF f.i < Len(bt.hist.rs) - 1
                  THEN /\ bt' = f
                       /\ UNCHANGED <<ret, pc>>
                  ELSE /\ bt' = [f EXCEPT !.active = FALSE]
                       /\ ret' = [ret EXCEPT !.out = FullReport(f)]
                       /\ pc' = "idle"
  /\ UNCHANGED variant

\* A call of riskLevel(conf, hist).
CallRiskLevel ==
  /\ pc = "idle"
  /\ \E h \in HistInputs, conf \in RiskConfs :
       ret' = [op |-> "riskLevel", hist |-> h, conf |-> conf,
               out |-> riskLevel(variant, conf, h)]
  /\ bt' = NoFrame
  /\ UNCHANGED <<variant, meta, pc>>

\* A call of detectDominantBridge(hist) with the default window
\* (server.js only).
CallDetectDominantBridge ==
  /\ pc = "idle"
  /\ variant = "server"
  /\ \E h \in HistInputs :
       ret' = [op |-> "detectDominantBridge", hist |-> h,
               out |-> detectDominantBridge(h, 50)]
  /\ bt' = NoFrame
  /\ UNCHANGED <<variant, meta, pc>>

Next ==
  \/ CallEnsemblePredict
  \/ BacktestBegin
  \/ BacktestStep
  \/ CallRiskLevel
  \/ CallDetectDominantBridge

Spec == Init /\ [][Next]_vars

(***************************************************************************)
(* The voting block and the fallback of ensemblePredict as functions of    *)
(* their inputs: the initial states draw a vote vector or a short history, *)
(* the actions apply the code to it.                                       *)
(***************************************************************************)
ShortHists ==
  {h \in HistInputs : ~h.null /\ Len(h.rs) < MinHist("server")}

InitVote ==
  /\ variant \in Variants
  /\ meta = NewMeta
  /\ pc = "idle"
  /\ bt = NoFrame
  /\ ret \in {[op |-> "votes", votes |-> vs] : vs \in VoteInputs(variant)}
             \cup {[op |-> "hist", hist |-> h] :
                     h \in {g \in ShortHists : Len(g.rs) < MinHist(variant)}}

\* Lines "const scoreT = ..." to the return of ensemblePredict.
ApplyEnsembleVote ==
  /\ ret.op = "votes"
  /\ ret' = [op |-> "ensembleVote", votes |-> ret.votes,
             out |-> EnsembleVote(variant, ret.votes)]
  /\ UNCHANGED <<variant, meta, pc, bt>>

\* The first statement of ensemblePredict on a short history.
ApplyFallback ==
  /\ ret.op = "hist"
  /\ LET r == ensemblePredict(variant, ret.hist, meta, NoVotes)
     IN  /\ ret' = [op |-> "fallback", hist |-> ret.hist, out |-> r.out]
         /\ meta' = r.meta
  /\ UNCHANGED <<variant, pc, bt>>

NextVote ==
  \/ ApplyEnsembleVote
  \/ ApplyFallback

SpecVote == InitVote /\ [][NextVote]_vars

(***************************************************************************)
(* Properties.                                                             *)
(***************************************************************************)
\* The last call was ensemblePredict on a non-null history below the minimum.
ShortCall ==
  /\ ret.op = "ensemblePredict"
  /\ ~ret.hist.null
  /\ Len(ret.hist.rs) < MinHist(variant)

\* C1: for every history shorter than the ensemble minimum (15 rounds in
\* server.js, 10 in part_000), ensemblePredict does not throw and returns a
\* confidence of at most 0.6 and a non-empty rationale.
C1_ShortHistoryFallback ==
  ShortCall =>
    /\ ret.out.kind = "ok"
    /\ RatLeq(ret.out.conf, Rat(6, 10))
    /\ Len(ret.out.why) > 0

\* A history one round short of the minimum has been forecast.
C1_Witness ==
  /\ ShortCall
  /\ Len(ret.hist.rs) = MinHist(variant) - 1
  /\ ret.out.kind = "ok"

\* The last call was made with the empty history [].
EmptyCall(op) == ret.op = op /\ ret.hist = Hist(<<>>)

\* C2: called with an empty history, ensemblePredict returns the fallback
\* forecast, overallBacktest the short-circuit report, riskLevel a risk
\* label and detectDominantBridge the "no motif" result; none throws.
C2_EmptyHistory ==
  /\ EmptyCall("ensemblePredict") => ret.out = Fallback("T")
  /\ EmptyCall("overallBacktest") =>
       /\ ret.out.kind = "report"
       /\ ret.out.short
       /\ ret.out.details = <<>>
  /\ EmptyCall("riskLevel") => ret.out.kind = "label"
  /\ EmptyCall("detectDominantBridge") =>
       /\ ret.out.kind = "bridge"
       /\ ret.out.type = "null"
       /\ ret.out.conf = Rat(1, 2)

\* The bridge detector has answered on the empty history.
C2_Witness ==
  /\ EmptyCall("detectDominantBridge")
  /\ ret.out.kind = "bridge"

\* C3: on a non-empty history shorter than the minimum, ensemblePredict
\* returns the outcome of the last round through the fallback path, without
\* touching the meta-learner.
C3_FallbackIsLastOutcome ==
  (ShortCall /\ Len(ret.hist.rs) > 0) =>
    /\ ret.out.kind = "ok"
    /\ ret.out.path = "fallback"
    /\ ret.out.pred = ret.hist.rs[Len(ret.hist.rs)].ket_qua
    /\ meta = ret.before

\* A short history whose last outcome differs from its first has been
\* forecast.
C3_Witness ==
  /\ ShortCall
  /\ Len(ret.hist.rs) > 1
  /\ ret.hist.rs[1].ket_qua # ret.hist.rs[Len(ret.hist.rs)].ket_qua
  /\ ret.out.kind = "ok"
  /\ ret.out.pred = ret.hist.rs[Len(ret.hist.rs)].ket_qua

\* A forecast has been produced by the voting block or by the fallback.
Forecast == ret.op \in {"ensembleVote", "fallback"}

\* C4: every forecast, from the fallback and from the voting block on any
\* combination of votes and confidences, has a confidence in [0.5, 0.99].
C4_ConfidenceRange ==
  Forecast =>
    /\ RatLeq(Rat(1, 2), ret.out.conf)
    /\ RatLeq(ret.out.conf, Rat(99, 100))

\* The blend exceeded 0.99 and the forecast carries exactly 0.99.
C4_Witness ==
  /\ ret.op = "ensembleVote"
  /\ ret.out.conf = Rat(99, 100)
  /\ \A i \in 1..Len(ret.votes) : ret.votes[i].p = ret.out.pred

\* The mass of a symbol, recomputed from the votes: the sum over the voters
\* that chose it of fixed weight times confidence.
Tally(v, votes, sym) ==
  SumSeq([i \in 1..Len(votes) |->
            IF votes[i].p = sym
            THEN VoteWeights(v)[i] * VoteConf(v, votes, i)
            ELSE 0])

VoterIndex(v, src) == CHOOSE i \in 1..Len(Voters(v)) : Voters(v)[i] = src

\* Line a comes before line b in voter order.
LineBefore(v, a, b) ==
  \/ VoterIndex(v, a.src) < VoterIndex(v, b.src)
  \/ a.src = b.src /\ a.k < b.k

\* C6: the rationale is, in voter order, the lines of exactly the voters
\* whose vote equals the prediction, followed by one summary line with the
\* agreement percentage.
C6_RationaleOfAgreeingVoters ==
  ret.op = "ensembleVote" =>
    LET why == ret.out.why
        body == SubSeq(why, 1, Len(why) - 1)
        agreeing == {i \in 1..Len(ret.votes) : ret.votes[i].p = ret.out.pred}
    IN  /\ Len(why) >= 1
        /\ why[Len(why)] =
             Line("summary",
                  RoundDiv(100 * Cardinality(agreeing), Len(ret.votes)))
        /\ \A j \in 1..Len(body) :
             \E i \in agreeing :
               \E k \in 1..Len(ret.votes[i].why) : body[j] = ret.votes[i].why[k]
        /\ \A i \in agreeing :
             \A k \in 1..Len(ret.votes[i].why) :
               Cardinality({j \in 1..Len(body) :
                              body[j] = ret.votes[i].why[k]}) = 1
        /\ \A j \in 1..(Len(body) - 1) :
             LineBefore(variant, body[j], body[j + 1])

\* Some voter with a rationale disagreed, and an agreeing voter contributed
\* two lines.
C6_Witness ==
  /\ ret.op = "ensembleVote"
  /\ \E i \in 1..Len(ret.votes) :
       ret.votes[i].p # ret.out.pred /\ Len(ret.votes[i].why) > 0
  /\ \E i \in 1..Len(ret.votes) :
       ret.votes[i].p = ret.out.pred /\ Len(ret.votes[i].why) = 2
  /\ Len(ret.out.why) > 2

\* The 120-round history that alternates strictly and ends in T (High).
Alt120 == Hist(Alternating(120))

\* C7: on the 120-round alternating history ending in High, ensemblePredict
\* predicts Low (X) with confidence at least 0.7 and a rationale line from
\* the alternation rule, the motif matcher or the bridge detector.
C7_AlternatingScenario ==
  (ret.op = "ensemblePredict" /\ ret.hist = Alt120) =>
    /\ ret.out.kind = "ok"
    /\ ret.out.pred = "X"
    /\ RatLeq(Rat(7, 10), ret.out.conf)
    /\ \E j \in 1..Len(ret.out.why) : ret.out.why[j].src \in {"r1", "r3", "r8"}

BacktestEnded ==
  /\ ret.op = "overallBacktest"
  /\ ~ret.hist.null
  /\ ret.out.kind # "running"

\* The number of log entries whose prediction equals the actual outcome.
Hits(details) ==
  Cardinality({j \in 1..Len(details) : details[j].pred = details[j].actual})

\* C9: every backtest run that is not short-circuited returns a report, and
\* the accuracy recomputed from the report's log equals its acc field.
C9_AccuracyRoundTrip ==
  (BacktestEnded
     /\ EvalSteps(ret.hist, ret.lookback) > MinSample(variant)) =>
    /\ ret.out.kind = "report"
    /\ Len(ret.out.details) > 0
    /\ Rat(Hits(ret.out.details), Len(ret.out.details)) = ret.out.acc

\* The last call was overallBacktest with at most the floor of evaluable
\* steps.
ShortRun ==
  /\ ret.op = "overallBacktest"
  /\ ~ret.hist.null
  /\ EvalSteps(ret.hist, ret.lookback) <= MinSample(variant)

\* No step was evaluated and no predictor called; accuracy, roi, maximum
\* drawdown and sharpe are zero and the log is empty.
ShortRunIdle ==
  /\ ret.out.kind = "report"
  /\ bt.calls = 0
  /\ bt.steps = 0
  /\ ret.out.acc = Rat(0, 1)
  /\ ret.out.roi = Rat(0, 1)
  /\ ret.out.maxDrawdown = Rat(0, 1)
  /\ ret.out.sharpeZero
  /\ ret.out.details = <<>>

\* C10 (as stated): the short-circuit report has every numeric field zero,
\* sample size and final bankroll included.
C10_AllZeroReport ==
  ShortRun =>
    /\ ShortRunIdle
    /\ ret.out.sample = 0
    /\ ~ret.out.bankroll.null
    /\ ret.out.bankroll.v20 = 0

\* C10 (amended): at or below the floor, overallBacktest evaluates no step,
\* calls no predictor and returns accuracy, roi, maximum drawdown and
\* sharpe zero with an empty log; the sample size is the number of
\* evaluable steps and the final bankroll is null.
C10_ShortCircuitReport ==
  ShortRun =>
    /\ ShortRunIdle
    /\ ret.out.sample = EvalSteps(ret.hist, ret.lookback)
    /\ ret.out.bankroll.null

\* A run with exactly the floor of evaluable steps has been short-circuited.
C10_Witness ==
  /\ ShortRun
  /\ EvalSteps(ret.hist, ret.lookback) = MinSample(variant)
  /\ ret.out.kind = "report"
  /\ ret.out.sample = MinSample(variant)

(***************************************************************************)
(* kellyBetSize as a function of its arguments: the initial states draw    *)
(* the arguments, the action applies the code.                             *)
(***************************************************************************)
\* Confidences below, at and above the break-even of each payout, and
\* outside [0.01, 0.99].
KellyConfs == {Rat(c, 100) : c \in {0, 1, 34, 40, 51, 52, 60, 70, 99, 100, 130}}

\* Payouts; with payout 0 the quotient of the source is -Infinity, which
\* Rat renders as -1/0 (negative numerator).
KellyPayouts == {Rat(0, 1), Rat(1, 2), Rat(19, 20), Rat(2, 1)}

\* Bankrolls in twentieths: 0.5, 2, 409.6, 674, 1000 units.
KellyBankrolls == {10, 40, 8192, 13480, StartBankroll20}

KellyBaseUnits == {0, 1, 5}

InitKelly ==
  /\ variant \in Variants
  /\ meta = NewMeta
  /\ pc = "idle"
  /\ bt = NoFrame
  /\ ret \in {[op |-> "kellyArgs", confidence |-> c, payout |-> b,
               bankroll20 |-> B, baseUnit |-> u] :
                c \in KellyConfs, b \in KellyPayouts, B \in KellyBankrolls,
                u \in KellyBaseUnits}

ApplyKellyBetSize ==
  /\ ret.op = "kellyArgs"
  /\ ret' = [op |-> "kellyBetSize", confidence |-> ret.confidence,
             payout |-> ret.payout, bankroll20 |-> ret.bankroll20,
             baseUnit |-> ret.baseUnit,
             out |-> kellyBetSize(variant, ret.confidence, ret.payout,
                                  ret.bankroll20, ret.baseUnit)]
  /\ UNCHANGED <<variant, meta, pc, bt>>

NextKelly == ApplyKellyBetSize

SpecKelly == InitKelly /\ [][NextKelly]_vars

\* The Kelly fraction of the call is at most 0: payout * p <= 1 - p for the
\* clamped confidence p (for payout 0 the quotient is -Infinity).
KellyNotPositive ==
  LET p == ClampP(ret.confidence)
  IN  ret.payout.n * p.n <= ret.payout.d * (p.d - p.n)

\* C11: whenever the Kelly fraction computed by kellyBetSize is at most 0,
\* the function returns the base unit it was given, whatever the bankroll.
C11_KellyBaseUnit ==
  (ret.op = "kellyBetSize" /\ KellyNotPositive) => ret.out = ret.baseUnit

\* A call below break-even on a bankroll of 1000 returned a base unit of 5.
C11_Witness ==
  /\ ret.op = "kellyBetSize"
  /\ KellyNotPositive
  /\ ret.confidence = Rat(51, 100)
  /\ ret.payout = Payout
  /\ ret.bankroll20 = StartBankroll20
  /\ ret.baseUnit = 5
  /\ ret.out = 5

(***************************************************************************)
(* The loop of overallBacktest as a function of the history and of the     *)
(* forecasts it is given: the initial states draw a history and a          *)
(* forecasting policy, the action applies the loop body.                   *)
(***************************************************************************)
LoopLen == 41      \* rounds of the histories the loop is run on

LoopHists ==
  {Hist(Cycle(seed, LoopLen)) : seed \in Seeds \cup {<<RoundT>>}}

\* A policy fixes the confidence of every forecast and how the predicted
\* symbol follows from the last visible round: the same symbol (as the
\* fallback does), the opposite one, or always T.
LoopRules == {"last", "flip", "T"}
LoopConfs == {Rat(1, 2), Rat(6, 10), Rat(99, 100)}

PolicyForecast(policy, past) ==
  [kind |-> "ok", path |-> "policy",
   pred |-> CASE policy.rule = "last" -> past[Len(past)].ket_qua
              [] policy.rule = "flip" -> Opp(past[Len(past)].ket_qua)
              [] OTHER -> "T",
   conf |-> policy.conf, why |-> <<>>, scoreT |-> 0, scoreX |-> 0]

InitLoop ==
  /\ variant \in Variants
  /\ meta = NewMeta
  /\ pc = "backtest"
  /\ \E h \in LoopHists, rule \in LoopRules, conf \in LoopConfs :
       /\ bt = NewFrame(h, DefaultLookback(variant),
                        EvalSteps(h, DefaultLookback(variant)))
       /\ ret = [op |-> "loop", hist |-> h,
                 lookback |-> DefaultLookback(variant),
                 policy |-> [rule |-> rule, conf |-> conf],
                 out |-> [kind |-> "running"]]

\* One iteration of the loop; after the last one, the report.
LoopStep ==
  /\ pc = "backtest"
  /\ LET past == Past(bt.hist, bt.i)
         res == PolicyForecast(ret.policy, past)
         f == LoopBody(variant, [bt EXCEPT !.calls = @ + 1], past, res, -1)
     IN  IF f.i < Len(bt.hist.rs) - 1
         THEN /\ bt' = f
              /\ UNCHANGED <<ret, pc>>
         ELSE /\ bt' = [f EXCEPT !.active = FALSE]
              /\ ret' = [ret EXCEPT !.out = FullReport(f)]
              /\ pc' = "idle"
  /\ UNCHANGED <<variant, meta>>

NextLoop == LoopStep

SpecLoop == InitLoop /\ [][NextLoop]_vars

\* The bankroll (in twentieths) the j-th logged step started from.
BankrollBefore(j) ==
  IF j = 1 THEN StartBankroll20 ELSE bt.details[j - 1].bankroll

LoopRun == ret.op = "loop"
Logged == 1..Len(bt.details)

\* The caps the claim states: 0.2 of the bankroll in server.js, 0.25 in part_000.
ClaimedCap == IF variant = "server" THEN Rat(1, 5) ELSE Rat(1, 4)

C13_BankrollUpdate ==
  LoopRun =>
    /\ \A j \in Logged :
         LET d == bt.details[j]
             before == BankrollBefore(j)
         IN  /\ d.idx = Len(bt.hist.rs) - bt.n + j - 1
             /\ d.actual = At(bt.hist.rs, d.idx).ket_qua
             /\ d.bet = kellyBetSize(variant, d.conf, Payout, before, 1)
             /\ d.pred = d.actual => d.bankroll = before + (19 * d.bet)
             /\ d.pred # d.actual => d.bankroll = before - (20 * d.bet)
    /\ bt.bankroll = BankrollBefore(Len(bt.details) + 1)

\* A completed run of 40 steps with hits and misses.
C13_Witness ==
  /\ LoopRun
  /\ pc = "idle"
  /\ Len(bt.details) = bt.n
  /\ \E j \in Logged : bt.details[j].pred = bt.details[j].actual
  /\ \E j \in Logged : bt.details[j].pred # bt.details[j].actual

\* The largest bankroll seen up to logged step j, the initial 1000 included.
RECURSIVE PeakUpTo(_)
PeakUpTo(j) ==
  IF j = 0 THEN StartBankroll20
  ELSE Max2(PeakUpTo(j - 1), bt.details[j].bankroll)

\* (peak - bankroll) / peak after logged step j.
DrawdownAt(j) == Rat(PeakUpTo(j) - bt.details[j].bankroll, PeakUpTo(j))

ContractViolation == ret.hist.null \/ ret.lookback < 0

\* C16: a call of overallBacktest with a null history or a negative lookback
\* ends in an error outcome, never in a report.
C16_ContractViolationIsError ==
  (ret.op = "overallBacktest" /\ ContractViolation) => ret.out.kind = "throw"

(***************************************************************************)
(* shapeHistory(raw) as a function of the raw list: the initial states     *)
(* draw the list, the action applies the function.                         *)
(***************************************************************************)
MaxRaw == 3        \* rows of a raw list

Null == -1         \* a null or missing raw field (raw numbers are >= 0 here)

RawRow(phien, d1, d2, d3, tong, kq) ==
  [nul |-> FALSE, Phien |-> phien, Xuc_xac_1 |-> d1, Xuc_xac_2 |-> d2,
   Xuc_xac_3 |-> d3, Tong |-> tong, Ket_qua |-> kq]

NullRow == [RawRow(Null, Null, Null, Null, Null, "") EXCEPT !.nul = TRUE]

\* Raw rows: well-formed ones (two of them for session 2), a wrong sum, dice
\* out of range, a missing session number, an unknown result, a null row.
\* The empty text stands for a null Ket_qua.
RawRows ==
  {RawRow(1, 1, 2, 3, 6, "X"),
   RawRow(2, 4, 5, 6, 15, " Tai "),
   RawRow(2, 1, 1, 1, 3, "XIU"),
   RawRow(3, 6, 6, 6, 18, "T"),
   RawRow(1, 1, 2, 3, 7, "X"),
   RawRow(3, 0, 7, 2, 9, "x"),
   RawRow(Null, 1, 2, 3, 6, "X"),
   RawRow(4, 1, 2, 3, 6, "?"),
   NullRow}

RECURSIVE SeqsUpTo(_, _)
SeqsUpTo(S, k) ==
  IF k = 0 THEN {<<>>}
  ELSE LET shorter == SeqsUpTo(S, k - 1)
       IN  shorter \cup {Append(s, x) : s \in {t \in shorter : Len(t) = k - 1},
                                        x \in S}

\* "String(v).trim().toLowerCase()" on the texts above.
TrimLower(s) ==
  CASE s = " Tai " -> "tai"
    [] s = "XIU" -> "xiu"
    [] s = "X" -> "x"
    [] s = "T" -> "t"
    [] OTHER -> s

\* normResult(v): "T", "X", or null (the empty text).
normResult(v) ==
  IF v = "" THEN ""
  ELSE LET s == TrimLower(v)
       IN  IF s \in {"t", "tai"} THEN "T"
           ELSE IF s \in {"x", "xiu"} THEN "X"
           ELSE ""

\* The first filter of shapeHistory; server.js also validates dice and sum.
RowComplete(v, r) ==
  /\ ~r.nul
  /\ r.Phien # Null
  /\ r.Xuc_xac_1 # Null /\ r.Xuc_xac_2 # Null /\ r.Xuc_xac_3 # Null
  /\ r.Tong # Null
  /\ r.Ket_qua # ""
  /\ v = "server" =>
       /\ r.Xuc_xac_1 >= 1 /\ r.Xuc_xac_1 <= 6
       /\ r.Xuc_xac_2 >= 1 /\ r.Xuc_xac_2 <= 6
       /\ r.Xuc_xac_3 >= 1 /\ r.Xuc_xac_3 <= 6
       /\ r.Tong = r.Xuc_xac_1 + r.Xuc_xac_2 + r.Xuc_xac_3

\* ".map((r) => ({ phien, dice, tong, ket_qua, raw }))"
ShapeRow(r) ==
  [phien |-> r.Phien, dice |-> <<r.Xuc_xac_1, r.Xuc_xac_2, r.Xuc_xac_3>>,
   tong |-> r.Tong, ket_qua |-> normResult(r.Ket_qua)]

\* ".sort((a, b) => a.phien - b.phien)" is stable: a row goes after the rows
\* already placed whose session number is not greater.
InsertByPhien(sorted, r) ==
  LET k == Cardinality({i \in 1..Len(sorted) : sorted[i].phien <= r.phien})
  IN  SubSeq(sorted, 1, k) \o <<r>> \o SubSeq(sorted, k + 1, Len(sorted))

RECURSIVE SortByPhien(_, _)
SortByPhien(rows, k) ==
  IF k = 0 THEN <<>> ELSE InsertByPhien(SortByPhien(rows, k - 1), rows[k])

shapeHistory(v, raw) ==
  IF ~raw.isArray THEN <<>>
  ELSE LET kept == SelectSeq(raw.rows, LAMBDA r : RowComplete(v, r))
           shaped == [i \in 1..Len(kept) |-> ShapeRow(kept[i])]
           known == SelectSeq(shaped, LAMBDA r : r.ket_qua \in Outcomes)
       IN  SortByPhien(known, Len(known))

RawInputs ==
  {[isArray |-> TRUE, rows |-> rows] : rows \in SeqsUpTo(RawRows, MaxRaw)}
    \cup {[isArray |-> FALSE, rows |-> <<>>]}

InitShape ==
  /\ variant \in Variants
  /\ meta = NewMeta
  /\ pc = "idle"
  /\ bt = NoFrame
  /\ ret \in {[op |-> "rawList", raw |-> raw] : raw \in RawInputs}

ApplyShapeHistory ==
  /\ ret.op = "rawList"
  /\ ret' = [op |-> "shapeHistory", raw |-> ret.raw,
             out |-> shapeHistory(variant, ret.raw)]
  /\ UNCHANGED <<variant, meta, pc, bt>>

NextShape == ApplyShapeHistory

SpecShape == InitShape /\ [][NextShape]_vars

\* C17: for every raw list, rows with the same session number included, the
\* output of shapeHistory is strictly increasing by session number (so no
\* session number occurs twice).
C17_StrictlyIncreasing ==
  ret.op = "shapeHistory" =>
    \A i \in 1..Len(ret.out), j \in 1..Len(ret.out) :
      i < j => ret.out[i].phien < ret.out[j].phien

\* The number of places where catalogue entry k occurs in symbols rs.
Occurrences(rs, k) ==
  LET pat == BRIDGE_TYPES[k].pattern
  IN  Cardinality({i \in 0..(Len(rs) - Len(pat)) :
                     SubSeq(rs, i + 1, i + Len(pat)) = pat})

BridgeCall == ret.op = "detectDominantBridge" /\ ~ret.hist.null

BridgeWindow == LastN(Results(ret.hist.rs), 50)

\* C18: when at least one catalogue motif occurs in the trailing window,
\* detectDominantBridge returns a motif whose number of occurrences is the
\* highest, with that motif's follow-up prediction; it reports no motif only
\* when none occurs.
C18_DominantMotif ==
  BridgeCall =>
    LET K == 1..Len(BRIDGE_TYPES)
        occ == [k \in K |-> Occurrences(BridgeWindow, k)]
    IN  IF \E k \in K : occ[k] >= 1
        THEN \E k \in K :
               /\ \A j \in K : occ[j] <= occ[k]
               /\ ret.out.type = BRIDGE_TYPES[k].key
               /\ ret.out.pred = BridgeFollow(BRIDGE_TYPES[k].follow, BridgeWindow)
        ELSE ret.out.type = "null"

(***************************************************************************)
(* markovPrediction(hist) as a function of the history: the initial states *)
(* draw the history, the action applies the function.                      *)
(***************************************************************************)
MaxMarkov == 12    \* rounds of the histories markovPrediction is applied to

\* "lastN(rs, 300)" / "lastN(rs, 200)"
MarkovWindow(v) == IF v = "server" THEN 300 ELSE 200

\* A transition counter such as txt_x: 1 plus the number of positions of use
\* where symbol cur follows context ctx.
CtxCount(use, ctx, cur) ==
  LET L == Len(ctx)
  IN  1 + Cardinality({i \in (L + 1)..Len(use) :
                         SubSeq(use, i - L, i - 1) = ctx /\ use[i] = cur})

\* The contexts for which the selection chain reads counters, per order.
\* server.js spells out "TTTTT" at lag 5, "TTTT" and "XXXX" at lag 4 and
\* "TTT" at lag 3, and nothing at lags 2 and 1; part_000 spells out "TTTT"
\* at lag 4 and every context at lags 3, 2 and 1.
MarkovContexts(v, order) ==
  IF v = "server"
  THEN CASE order = 5 -> {<<"T", "T", "T", "T", "T">>}
         [] order = 4 -> {<<"T", "T", "T", "T">>, <<"X", "X", "X", "X">>}
         [] order = 3 -> {<<"T", "T", "T">>}
         [] OTHER -> {}
  ELSE CASE order = 4 -> {<<"T", "T", "T", "T">>}
         [] order \in 1..3 -> [1..order -> Outcomes]
         [] OTHER -> {}

\* The branch of the if / else-if chain that is taken.
MarkovOrder(v, use) ==
  LET n == Len(use)
  IN  IF v = "server"
      THEN Min2(n, 5)
      ELSE IF n >= 4 /\ LastN(use, 4) = <<"T", "T", "T", "T">> THEN 4
      ELSE Min2(n, 3)

\* pT of the branch taken, 0.5 when the branch has no case for the context.
MarkovPT(v, use, order) ==
  LET ctx == LastN(use, order)
  IN  IF order >= 1 /\ ctx \in MarkovContexts(v, order)
      THEN Rat(CtxCount(use, ctx, "T"),
               CtxCount(use, ctx, "T") + CtxCount(use, ctx, "X"))
      ELSE Rat(1, 2)

markovPrediction(v, h) ==
  IF h.null THEN Throw("TypeError")           \* hist.map on null
  ELSE
    LET use == LastN(Results(h.rs), MarkovWindow(v))
        order == MarkovOrder(v, use)
        pT == MarkovPT(v, use, order)
        pX == Rat(pT.d - pT.n, pT.d)
        top == IF RatLess(pT, pX) THEN pX ELSE pT
        \* 0.65 + (Math.max(pT, pX) + 0.1 - 0.5) * 0.8
        conf == Rat(33 * top.d + 80 * top.n, 100 * top.d)
    IN  [kind |-> "ok", pred |-> IF RatLeq(pX, pT) THEN "T" ELSE "X",
         conf |-> IF RatLess(Rat(98, 100), conf) THEN Rat(98, 100) ELSE conf,
         order |-> order, pT |-> pT]

MarkovSeeds ==
  {<<RoundT, RoundX>>, <<RoundX, RoundT>>, <<RoundT>>, <<RoundX>>,
   <<RoundT, RoundT, RoundX>>}

MarkovInputs ==
  {Hist(Cycle(seed, len)) : seed \in MarkovSeeds, len \in 0..MaxMarkov}
    \cup {Hist(Alternating(len)) : len \in {201, 302}}

InitMarkov ==
  /\ variant \in Variants
  /\ meta = NewMeta
  /\ pc = "idle"
  /\ bt = NoFrame
  /\ ret \in {[op |-> "history", hist |-> h] : h \in MarkovInputs}

ApplyMarkovPrediction ==
  /\ ret.op = "history"
  /\ ret' = [op |-> "markovPrediction", hist |-> ret.hist,
             out |-> markovPrediction(variant, ret.hist)]
  /\ UNCHANGED <<variant, meta, pc, bt>>

NextMarkov == ApplyMarkovPrediction

SpecMarkov == InitMarkov /\ [][NextMarkov]_vars

\* Every round differs from the one before it.
IsAlternating(rs) ==
  \A i \in 2..Len(rs) : rs[i].ket_qua # rs[i - 1].ket_qua

\* C19: for every perfectly alternating history of at least five rounds,
\* markovPrediction predicts the opposite of the last symbol, at whichever
\* order it selects.
C19_AlternatingPredictsOpposite ==
  (/\ ret.op = "markovPrediction"
   /\ Len(ret.hist.rs) >= 5
   /\ IsAlternating(ret.hist.rs))
  => ret.out.pred = Opp(ret.hist.rs[Len(ret.hist.rs)].ket_qua)

(***************************************************************************)
(* breakStreakFilter(hist) as a function of the history: the initial       *)
(* states draw the history, the action applies the function.               *)
(***************************************************************************)
\* entropy(arr) < t for t = 0.5 and t = 0.6, given as the fraction p (in
\* 1/100000) whose binary entropy is t: 0.11003 and 0.14610.  The entropy of
\* c/n is below t exactly when c/n < p or c/n > 1 - p; entropy([]) is 0.
EntropyBelow(arr, p) ==
  \/ Len(arr) = 0
  \/ 100000 * CountT(arr) < p * Len(arr)
  \/ 100000 * CountT(arr) > (100000 - p) * Len(arr)

\* variance(arr) < c; variance is 0 for fewer than two values.
VarianceBelow(arr, c) ==
  IF Len(arr) < 2 THEN 0 < c
  ELSE SumSquares(arr, SumSeq(arr)) < c * Len(arr) * (Len(arr) - 1)

\* Alteration of StreakPrior: the prior ignores the streak length.
StreakPriorFlat(v, s) == Rat(1, 2)

\* The prior table keyed by the length of the current streak.
StreakPrior(v, s) ==
  IF v = "server"
  THEN IF s >= 12 THEN Rat(90, 100)
       ELSE IF s >= 10 THEN Rat(85, 100)
       ELSE IF s >= 8 THEN Rat(80, 100)
       ELSE IF s >= 6 THEN Rat(75, 100)
       ELSE IF s >= 4 THEN Rat(65, 100)
       ELSE IF s >= 3 THEN Rat(60, 100)
       ELSE Rat(50, 100)
  ELSE IF s >= 10 THEN Rat(85, 100)
       ELSE IF s >= 8 THEN Rat(80, 100)
       ELSE IF s >= 6 THEN Rat(75, 100)
       ELSE IF s >= 4 THEN Rat(65, 100)
       ELSE IF s >= 3 THEN Rat(60, 100)
       ELSE Rat(0, 1)

\* breakCounts[s]: the earlier streaks of exactly s rounds, each of which
\* ended in a break.  streakCounts[s] counts the current streak as well.
BreakCount(rs, s) ==
  Cardinality({i \in 2..Len(rs) :
                 /\ rs[i] # rs[i - 1]
                 /\ streakOfEnd(SubSeq(rs, 1, i - 1)) = s})

\* The adjustments of the break probability, in hundredths.
StreakAdjust(v, rs, totals) ==
  IF v = "server"
  THEN (IF EntropyBelow(LastN(rs, 30), 11003) THEN 15 ELSE 0)
       - (IF EntropyAbove95(LastN(rs, 30)) THEN 10 ELSE 0)
       + (IF VarianceBelow(LastN(totals, 20), 5) THEN 10 ELSE 0)
  ELSE IF EntropyBelow(LastN(rs, 20), 14610) THEN 10 ELSE 0

breakStreakFilter(v, h) ==
  IF h.null THEN Throw("TypeError")           \* hist.map on null
  ELSE
    LET rs == Results(h.rs)
        s == streakOfEnd(rs)
        cur == LastOf(rs)
        b == BreakCount(rs, s)
        \* "(breakCounts[s] / streakCounts[s]) || breakProb"
        base == IF s >= 3 /\ b > 0 THEN Rat(b, b + 1) ELSE StreakPrior(v, s)
        adj == StreakAdjust(v, rs, Totals(h.rs))
        breakProb == Rat(100 * base.n + adj * base.d, 100 * base.d)
        boosted == Rat(breakProb.n * 100 + (IF v = "server" THEN 10 ELSE 5)
                                             * breakProb.d,
                       breakProb.d * 100)
    IN  IF RatLeq(Rat(65, 100), breakProb)
        THEN [kind |-> "ok", broke |-> TRUE,
              pred |-> IF cur = "T" THEN "X" ELSE "T",
              conf |-> IF v = "server" /\ RatLess(Rat(98, 100), boosted)
                       THEN Rat(98, 100) ELSE boosted,
              breakProb |-> breakProb, s |-> s]
        ELSE [kind |-> "ok", broke |-> FALSE, pred |-> cur,
              conf |-> IF v = "server"
                       THEN Rat(165 * breakProb.d - 100 * breakProb.n,
                                100 * breakProb.d)
                       ELSE Rat(6, 10),
              breakProb |-> breakProb, s |-> s]

\* High rounds with the least and the greatest High total of the feed.
HighRounds == {[ket_qua |-> "T", tong |-> t] : t \in {11, 17}}

\* Every history of ten High rounds over those totals.
AllHigh == {Hist(rs) : rs \in [1..10 -> HighRounds]}

StreakInputs == AllHigh \cup MarkovInputs

InitStreak ==
  /\ variant \in Variants
  /\ meta = NewMeta
  /\ pc = "idle"
  /\ bt = NoFrame
  /\ ret \in {[op |-> "history", hist |-> h] : h \in StreakInputs}

ApplyBreakStreakFilter ==
  /\ ret.op = "history"
  /\ ret' = [op |-> "breakStreakFilter", hist |-> ret.hist,
             out |-> breakStreakFilter(variant, ret.hist)]
  /\ UNCHANGED <<variant, meta, pc, bt>>

NextStreak == ApplyBreakStreakFilter

SpecStreak == InitStreak /\ [][NextStreak]_vars

\* The history is exactly ten rounds, all High.
TenHigh ==
  /\ Len(ret.hist.rs) = 10
  /\ \A i \in 1..10 : ret.hist.rs[i].ket_qua = "T"

\* C20: on a history of exactly ten High rounds, whatever their totals,
\* breakStreakFilter predicts Low with a break probability of at least 0.8.
C20_TenHighPredictsLow ==
  (ret.op = "breakStreakFilter" /\ TenHigh) =>
    /\ ret.out.pred = "X"
    /\ RatLeq(Rat(8, 10), ret.out.breakProb)

\* Ten High rounds whose totals vary by more than the variance threshold:
\* the break is predicted from the prior and the entropy adjustment alone.
C20_Witness ==
  /\ ret.op = "breakStreakFilter"
  /\ TenHigh
  /\ VarianceAbove(Totals(ret.hist.rs), 5)
  /\ ret.out.broke
  /\ ret.out.pred = "X"
  /\ ret.out.s = 10

\* C21: once a call of ensemblePredict has started the walk-forward replay
\* on the meta-learner, no later call starts it again.
C21_ReplayStartsOnce ==
  (ret.op = "ensemblePredict" /\ ~ret.hist.null /\ ret.before.attempted)
    => ~NeedWarm(variant, ret.hist.rs, ret.before)

\* A completed call of ensemblePredict on a history long enough for the
\* warm-up.
LongCall ==
  /\ ret.op = "ensemblePredict"
  /\ ~ret.hist.null
  /\ Len(ret.hist.rs) > WarmMin(variant)

\* C22: a forecast on a history long enough for the warm-up is made by a
\* warmed meta-learner whose weights have been updated for every round of
\* that history whose successor is known (the last label trained on is the
\* last round), whether the rounds were replayed or added since.
C22_WeightsReflectHistory ==
  LongCall =>
    /\ ret.out.kind = "ok"
    /\ meta.warmed
    /\ meta.maxLabel = Len(ret.hist.rs) - 1

\* A completed call of ensemblePredict that met no warm-up condition: a null
\* history, one of at most 200 (server.js) / 150 (part_000) rounds, or an
\* instance already warmed.
QuietCall ==
  /\ ret.op = "ensemblePredict"
  /\ \/ ret.hist.null
     \/ Len(ret.hist.rs) <= (IF variant = "server" THEN 200 ELSE 150)
     \/ ret.before.warmed

\* C23: a call of ensemblePredict that does not trigger the warm-up leaves
\* the meta-learner as it was: no update applied, the warmed flag unchanged,
\* no replay started (predictProb only reads the weights).
C23_QuietCallKeepsLearner == QuietCall => meta = ret.before

\* A call on a history at the ensemble minimum or longer, below the warm-up
\* threshold, on an instance that an earlier call tried to warm.
C23_Witness ==
  /\ QuietCall
  /\ ~ret.hist.null
  /\ Len(ret.hist.rs) >= MinHist(variant)
  /\ ret.before.attempted
  /\ meta = ret.before

\* The orders at which the selection chain has a case for the trailing
\* context of use.
OrdersWithEntry(v, use) ==
  {k \in 1..5 : k <= Len(use) /\ LastN(use, k) \in MarkovContexts(v, k)}

\* C24: markovPrediction estimates from the highest order that has an entry
\* for the trailing context, falling back order by order, and gives the
\* neutral 0.5 only when no order has one.
C24_HighestOrderWithEntry ==
  (ret.op = "markovPrediction" /\ ~ret.hist.null) =>
    LET use == LastN(Results(ret.hist.rs), MarkovWindow(variant))
        orders == OrdersWithEntry(variant, use)
    IN  IF orders = {} THEN ret.out.pT = Rat(1, 2)
        ELSE LET best == CHOOSE k \in orders : \A j \in orders : j <= k
             IN  ret.out.pT = MarkovPT(variant, use, best)

\* C25: the confidence returned by breakStreakFilter lies in [0, 1], in the
\* break branch and in the continuation branch.
C25_StreakConfidenceInUnit ==
  (ret.op = "breakStreakFilter" /\ ~ret.hist.null) =>
    /\ RatLeq(Rat(0, 1), ret.out.conf)
    /\ RatLeq(ret.out.conf, Rat(1, 1))

(***************************************************************************)
(* recentPatternPrediction(hist) as a function of the history: the initial *)
(* states draw the history, the action applies the function.               *)
(***************************************************************************)
MaxFree == 6       \* every history of at most this many rounds is tried
MaxPattern == 12   \* periodic histories are tried up to this many rounds

\* "lastN(rs, 50)" / "lastN(rs, 30)"
PatternWindow(v) == IF v = "server" THEN 50 ELSE 30

\* The arms of the if / else-if chain in order: motif length, repeat
\* threshold, and base, cap and step of the confidence in hundredths.
PatternArm(len, thr, base, cap, step) ==
  [len |-> len, thr |-> thr, base |-> base, cap |-> cap, step |-> step]

PatternArms(v) ==
  LET common == <<PatternArm(6, 2, 80, 15, 5), PatternArm(5, 3, 78, 15, 5),
                  PatternArm(4, 4, 75, 12, 4), PatternArm(3, 5, 72, 10, 3)>>
  IN  IF v = "server"
      THEN <<PatternArm(10, 2, 85, 10, 5), PatternArm(9, 2, 83, 12, 5),
             PatternArm(8, 2, 81, 14, 5), PatternArm(7, 2, 80, 15, 5)>>
             \o common
      ELSE common

\* patCounts(len)[k] for the motif k that starts at position i (from 0).
PatCount(use, len, i) ==
  Cardinality({j \in 0..(Len(use) - len) :
                 SubSeq(use, j + 1, j + len) = SubSeq(use, i + 1, i + len)})

\* bestEntry(patCounts(len)): the entries are in order of first occurrence
\* and the sort is stable, so the first motif with the highest count wins.
bestEntry(use, len) ==
  IF Len(use) < len THEN [none |-> TRUE, patt |-> <<>>, count |-> 0]
  ELSE LET P == 0..(Len(use) - len)
           i == CHOOSE a \in P :
                  /\ \A b \in P : PatCount(use, len, b) <= PatCount(use, len, a)
                  /\ \A b \in P : PatCount(use, len, b) = PatCount(use, len, a)
                                    => a <= b
       IN  [none |-> FALSE, patt |-> SubSeq(use, i + 1, i + len),
            count |-> PatCount(use, len, i)]

\* Math.pow(1.3, i) / Math.pow(1.2, i) over a window of n rounds, scaled by
\* 10^(n-1) / 5^(n-1) to stay in the integers.
RECURSIVE Pow(_, _)
Pow(b, e) == IF e = 0 THEN 1 ELSE b * Pow(b, e - 1)

RecentWeight(v, n, i) ==
  IF v = "server" THEN Pow(13, i) * Pow(10, n - 1 - i)
  ELSE Pow(6, i) * Pow(5, n - 1 - i)

RecentScore(v, use, sym) ==
  SumSeq([i \in 1..Len(use) |->
            IF use[i] = sym THEN RecentWeight(v, Len(use), i - 1) ELSE 0])

\* The last arm: recency-weighted majority.
RecentMajority(v, use) ==
  LET t == RecentScore(v, use, "T")
      x == RecentScore(v, use, "X")
      D == Abs(t - x)
      S == IF t + x = 0 THEN 1 ELSE t + x
      capped == IF v = "server" THEN 3 * D >= S ELSE 16 * D >= 5 * S
  IN  [kind |-> "ok", len |-> 0, patt |-> <<>>, count |-> 0,
       pred |-> IF t >= x THEN "T" ELSE "X",
       conf |-> IF capped
                THEN (IF v = "server" THEN Rat(95, 100) ELSE Rat(90, 100))
                ELSE Rat(13 * S + (IF v = "server" THEN 18 ELSE 16) * D,
                         20 * S)]

\* "pred = patt[patt.length - 1]" / "pred = patt[5]", "patt[4]", ...
MotifPred(use, patt) == patt[Len(patt)]

RECURSIVE PatternChain(_, _, _)
PatternChain(v, use, k) ==
  IF k > Len(PatternArms(v)) THEN RecentMajority(v, use)
  ELSE LET arm == PatternArms(v)[k]
           b == bestEntry(use, arm.len)
       IN  IF ~b.none /\ b.count >= arm.thr
           THEN [kind |-> "ok", len |-> arm.len, patt |-> b.patt,
                 count |-> b.count, pred |-> MotifPred(use, b.patt),
                 conf |-> Rat(arm.base
                              + Min2(arm.cap, (b.count - arm.thr) * arm.step),
                              100)]
           ELSE PatternChain(v, use, k + 1)

recentPatternPrediction(v, h) ==
  IF h.null THEN Throw("TypeError")           \* hist.map on null
  ELSE PatternChain(v, LastN(Results(h.rs), PatternWindow(v)), 1)

RoundOf(sym) == IF sym = "T" THEN RoundT ELSE RoundX

PatternInputs ==
  {Hist([i \in 1..len |-> RoundOf(s[i])]) :
     len \in 0..MaxFree, s \in [1..MaxFree -> Outcomes]}
    \cup {Hist(Cycle(seed, len)) :
            seed \in {<<RoundT>>, <<RoundX>>, <<RoundT, RoundX>>,
                      <<RoundX, RoundT>>},
            len \in 7..MaxPattern}
    \cup {Hist(Cycle(seed, len)) :
            seed \in {<<RoundT, RoundT, RoundX>>, <<RoundX, RoundT, RoundT>>,
                      <<RoundX, RoundX, RoundT>>},
            len \in 9..MaxPattern}

InitPattern ==
  /\ variant \in Variants
  /\ meta = NewMeta
  /\ pc = "idle"
  /\ bt = NoFrame
  /\ ret \in {[op |-> "history", hist |-> h] : h \in PatternInputs}

ApplyRecentPatternPrediction ==
  /\ ret.op = "history"
  /\ ret' = [op |-> "recentPatternPrediction", hist |-> ret.hist,
             out |-> recentPatternPrediction(variant, ret.hist)]
  /\ UNCHANGED <<variant, meta, pc, bt>>

NextPattern == ApplyRecentPatternPrediction

SpecPattern == InitPattern /\ [][NextPattern]_vars

\* The symbols that follow an occurrence of motif patt in window use.
Followers(use, patt) ==
  {use[j + Len(patt) + 1] :
     j \in {a \in 0..(Len(use) - Len(patt) - 1) :
              SubSeq(use, a + 1, a + Len(patt)) = patt}}

MotifCall == ret.op = "recentPatternPrediction" /\ ret.out.len > 0

PatternUse == LastN(Results(ret.hist.rs), PatternWindow(variant))

\* C26: when recentPatternPrediction selects a repeated motif, the symbol it
\* predicts is one that followed an occurrence of the motif in the window,
\* and no longer motif cleared its repeat threshold.
C26_PredictsFollower ==
  MotifCall =>
    /\ ret.out.pred \in Followers(PatternUse, ret.out.patt)
    /\ \A k \in 1..Len(PatternArms(variant)) :
         LET arm == PatternArms(variant)[k]
         IN  arm.len > ret.out.len =>
               bestEntry(PatternUse, arm.len).count < arm.thr

MaxReq == 3        \* requests in flight

Reqs == 1..MaxReq

\* What the upstream feed returns, after shapeHistory: nothing, a few
\* rounds, and histories longer than either warm-up threshold.
FeedLens == {0, 12, 201, 202}

FeedHists == {Hist(Alternating(len)) : len \in FeedLens}

NoResponse == [status |-> 0, replay |-> FALSE, rounds |-> 0]

InitServe ==
  /\ variant \in Variants
  /\ meta = NewMeta
  /\ bt = NoFrame
  /\ pc = [r \in Reqs |-> "idle"]
  /\ ret = [r \in Reqs |-> NoResponse]

\* The request arrives and the handler suspends at the upstream fetch.
Receive(r) ==
  /\ pc[r] = "idle"
  /\ pc' = [pc EXCEPT ![r] = "waiting"]
  /\ UNCHANGED <<variant, meta, ret, bt>>

\* The fetch is rejected: "catch (e) { res.status(500) }".
FetchFails(r) ==
  /\ pc[r] = "waiting"
  /\ pc' = [pc EXCEPT ![r] = "done"]
  /\ ret' = [ret EXCEPT ![r] = [NoResponse EXCEPT !.status = 500]]
  /\ UNCHANGED <<variant, meta, bt>>

\* The fetch resolves and the rest of the handler runs: shapeHistory, the
\* empty-feed test, ensemblePredict, overallBacktest, the response.  A
\* history that ensemblePredict answers without raising has fewer rounds
\* than the backtest floor, so the backtest that follows is the
\* short-circuit and makes no further call.
Resume(r) ==
  /\ pc[r] = "waiting"
  /\ \E h \in FeedHists :
       \E votes \in VotesFor(variant, h.rs) :
         LET res == ensemblePredict(variant, h, meta, votes)
             n == EvalSteps(h, DefaultLookback(variant))
             status == IF Len(h.rs) = 0 THEN 502
                       ELSE IF res.out.kind = "throw" THEN 500
                       ELSE IF ShortCircuit(variant, n) THEN 200
                       ELSE 500
         IN  /\ meta' = IF Len(h.rs) = 0 THEN meta ELSE res.meta
             /\ ret' = [ret EXCEPT ![r] =
                          [status |-> status,
                           replay |-> Len(h.rs) > 0
                                        /\ NeedWarm(variant, h.rs, meta),
                           rounds |-> Len(h.rs)]]
  /\ pc' = [pc EXCEPT ![r] = "done"]
  /\ UNCHANGED <<variant, bt>>

NextServe ==
  \E r \in Reqs : Receive(r) \/ FetchFails(r) \/ Resume(r)

SpecServe == InitServe /\ [][NextServe]_vars

\* C28: with several requests in flight, no request sees the meta-learner
\* part-way through a warm-up (updates applied but not yet warmed), and at
\* most one request runs the replay.
C28_OneReplayNoPartialWeights ==
  /\ meta.updates > 0 => meta.warmed
  /\ \A r1 \in Reqs, r2 \in Reqs :
       (ret[r1].replay /\ ret[r2].replay) => r1 = r2

\* C29: every report of overallBacktest, for every history (the empty one
\* included) and every lookback, has a sample that is a non-negative
\* integer and an accuracy acc = correct / sample with 0 <= correct <=
\* sample, hence within [0, 1].
C29_ReportSampleNonNegative ==
  (ret.op = "overallBacktest" /\ ret.out.kind = "report")
    => /\ ret.out.sample >= 0
       /\ \E correct \in 0..ret.out.sample :
            IF ret.out.sample = 0
            THEN correct = 0 /\ ret.out.acc = Rat(0, 1)
            ELSE ret.out.acc = Rat(correct, ret.out.sample)

\* Confidences from 0 to 1 in steps of 0.1.
ConfGrid == {Rat(k, 10) : k \in 0..10}

RiskCall == ret.op = "riskLevel" /\ ~ret.hist.null

\* C30: for a fixed history riskLevel is monotone in the confidence (a
\* higher confidence never gives a label further up the risk scale), and
\* every call returns exactly one label of the scale.
C30_RiskMonotoneInConfidence ==
  RiskCall =>
    /\ ret.out.kind = "label"
    /\ ret.out.level \in 1..Len(RiskLabels(variant))
    /\ ret.out.label = RiskLabels(variant)[ret.out.level]
    /\ \A c \in ConfGrid :
         LET other == riskLevel(variant, c, ret.hist)
         IN  /\ other.kind = "label"
             /\ RatLeq(ret.conf, c) => other.level <= ret.out.level
             /\ RatLeq(c, ret.conf) => other.level >= ret.out.level

\* A call at confidence 0.6 on a history of at least 20 rounds for which a
\* confidence of 0.9 gives a strictly lower label.
C30_Witness ==
  /\ RiskCall
  /\ Len(ret.hist.rs) >= 20
  /\ ret.conf = Rat(6, 10)
  /\ riskLevel(variant, Rat(9, 10), ret.hist).level < ret.out.level

====
